---- MODULE Spec2Model ----
(***************************************************************************)
(* AI Scene Studio backend (src/main.py): a FastAPI gateway in front of a  *)
(* hosted generative model.  The module models the helpers of main.py as   *)
(* operators and the seven POST handlers as a state machine whose steps    *)
(* are the points where a handler waits for the remote service.            *)
(*                                                                         *)
(* Representation of Python values:                                        *)
(*   - bytes are sequences of numbers 0..255;                              *)
(*   - a base64 / data-URI string is a sequence of numbers: 0..63 are the  *)
(*     base64 alphabet, 64 is "=", -1 is "," and -2 stands for the header  *)
(*     text "data:image/png;base64";                                       *)
(*   - any other str is a sequence of string tokens (a prompt is the       *)
(*     sequence of the pieces its f-string concatenates, a response text   *)
(*     is a sequence of characters);                                       *)
(*   - an attribute that may be missing or None is [none, val];            *)
(*   - a call that may raise yields [ok, val, err]: err is str(e) of the   *)
(*     exception raised.                                                   *)
(***************************************************************************)
EXTENDS Integers, Sequences, FiniteSets, TLC

VARIABLES
    pc,         \* position of the request being handled
    req,        \* the request body (pydantic model of the endpoint)
    calls,      \* remote calls issued for this request, in order
    last,       \* what the last remote call returned or raised
    extracted,  \* outcome of the last extract_img
    dec,        \* gen_all: the attribute dict dec
    results,    \* gen_all: the dict results, as the sequence of its items
    loop_i,     \* gen_all: position of the for loop in its list of kinds
    models,     \* connect: the pair (im, tm) of detect_models
    exc,        \* str(e) of the exception the handler caught, if any
    response    \* the HTTP response of the request

vars == <<pc, req, calls, last, extracted, dec, results, loop_i, models, exc, response>>

\* ------------------------------------------------------------------ bounds
\* Largest number of parts, over all candidates, of an enumerated response.
MaxParts == 3
\* Largest number of candidates of an enumerated response.
MaxCands == 2

\* ------------------------------------------------------------------ config
IMAGE_MODELS == <<"gemini-2.5-flash-image", "gemini-2.0-flash-exp">>
TEXT_MODELS == <<"gemini-2.0-flash", "gemini-2.0-flash-lite", "gemini-1.5-flash">>
NO_CHANGE == "Keep everything else in the image exactly unchanged"
STYLE_GUARD == "No watermarks, no text overlays, no logos. High quality output."
CHESS_BG == "Render on a transparent/checkerboard background"
\* The slice bound of extract_img's text excerpt, [:300].
TxtLimit == 300

\* ------------------------------------------------------------ Python values
Some(v) == [none |-> FALSE, val |-> v]
Absent(d) == [none |-> TRUE, val |-> d]
\* getattr(x, name, default) or default
OrDefault(o, d) == IF o.none THEN d ELSE o.val

Ok(v) == [ok |-> TRUE, val |-> v, err |-> <<>>]
Raise(msg) == [ok |-> FALSE, val |-> <<>>, err |-> msg]

\* s[:n]
Take(s, n) == SubSeq(s, 1, IF Len(s) < n THEN Len(s) ELSE n)
\* s[n:]
Drop(s, n) == SubSeq(s, n + 1, Len(s))

\* ------------------------------------------------------------ image utils
RECURSIVE b64encode(_)
\* base64.b64encode: three bytes give four sextets, the rest is padded with "=".
b64encode(b) ==
    IF Len(b) = 0 THEN <<>>
    ELSE IF Len(b) = 1 THEN <<b[1] \div 4, (b[1] % 4) * 16, 64, 64>>
    ELSE IF Len(b) = 2
        THEN <<b[1] \div 4, (b[1] % 4) * 16 + (b[2] \div 16), (b[2] % 16) * 4, 64>>
    ELSE <<b[1] \div 4, (b[1] % 4) * 16 + (b[2] \div 16),
           (b[2] % 16) * 4 + (b[3] \div 64), b[3] % 64>> \o b64encode(Drop(b, 3))

RECURSIVE b64groups(_)
\* The bytes of a padded base64 string whose length is a multiple of four.
b64groups(s) ==
    IF Len(s) = 0 THEN <<>>
    ELSE IF s[3] = 64 THEN <<s[1] * 4 + (s[2] \div 16)>>
    ELSE IF s[4] = 64
        THEN <<s[1] * 4 + (s[2] \div 16), (s[2] % 16) * 16 + (s[3] \div 4)>>
    ELSE <<s[1] * 4 + (s[2] \div 16), (s[2] % 16) * 16 + (s[3] \div 4),
           (s[3] % 4) * 64 + s[4]>> \o b64groups(Drop(s, 4))

IsB64Char(x) == x \in 0..64

\* base64.b64decode(s), validate=False: characters outside the alphabet are
\* discarded, then a length that is no multiple of four raises binascii.Error.
b64decode(s) ==
    LET t == SelectSeq(s, IsB64Char) IN
    IF Len(t) % 4 # 0 \/ (Len(t) > 0 /\ (t[1] = 64 \/ t[2] = 64))
    THEN Raise(<<"Incorrect padding">>)
    ELSE Ok(b64groups(t))

\* b64.split(",", 1)[1] when "," in b64
AfterComma(s) ==
    LET i == CHOOSE k \in 1..Len(s) : s[k] = -1 /\ \A j \in 1..(k - 1) : s[j] # -1
    IN Drop(s, i)

b64_to_bytes(b64) ==
    LET s == IF \E k \in 1..Len(b64) : b64[k] = -1 THEN AfterComma(b64) ELSE b64
    IN b64decode(s)

bytes_to_b64(b) == <<-2, -1>> \o b64encode(b)

\* Image.open(BytesIO(d)): the format is recognised by the first byte (137
\* opens a PNG, 255 a JPEG), anything else raises UnidentifiedImageError.
\* The image is the pixel content that follows.
ImageOpen(d) ==
    IF Len(d) > 0 /\ d[1] \in {137, 255}
    THEN Ok([pixels |-> Tail(d)])
    ELSE Raise(<<"cannot identify image file">>)

to_png(img) == <<137>> \o img.pixels

\* to_png(Image.open(BytesIO(d)))
OpenAsPng(d) ==
    LET o == ImageOpen(d) IN IF o.ok THEN Ok(to_png(o.val)) ELSE o

\* getattr(getattr(p, "inline_data", None), "data", None) of a part p, as
\* [type, bytes, str]: type is "bytes", "str" or "none" (no inline data).
NoData == [type |-> "none", bytes |-> <<>>, str |-> <<>>]
BytesData(b) == [type |-> "bytes", bytes |-> b, str |-> <<>>]
StrData(s) == [type |-> "str", bytes |-> <<>>, str |-> s]

\* The two isinstance branches of extract_img for the data d of one part.
DecodePart(d) ==
    IF d.type = "bytes" THEN OpenAsPng(d.bytes)
    ELSE LET b == b64decode(d.str) IN IF b.ok THEN OpenAsPng(b.val) ELSE b

RECURSIVE ScanParts(_, _)
\* The inner loop of extract_img from part i on: the outcome of the first
\* part whose data is bytes or str, or "none" when the loop runs out.
ScanParts(parts, i) ==
    IF i > Len(parts) THEN [found |-> FALSE, res |-> Ok(<<>>)]
    ELSE IF parts[i].data.type \in {"bytes", "str"}
        THEN [found |-> TRUE, res |-> DecodePart(parts[i].data)]
    ELSE ScanParts(parts, i + 1)

RECURSIVE ScanCands(_, _)
\* The outer loop of extract_img from candidate j on.
ScanCands(cands, j) ==
    IF j > Len(cands) THEN [found |-> FALSE, res |-> Ok(<<>>)]
    ELSE LET r == ScanParts(OrDefault(cands[j].parts, <<>>), 1) IN
         IF r.found THEN r ELSE ScanCands(cands, j + 1)

\* Mutant: the text is not cut.
NoImageMsg_uncut(resp, model) ==
    <<"No image in response from [", model, "]. Got: ">> \o OrDefault(resp.text, <<>>)

NoImageMsg(resp, model) ==
    <<"No image in response from [", model, "]. Got: ">>
        \o Take(OrDefault(resp.text, <<>>), TxtLimit)

\* Mutant: the scan keeps going and the last image part wins.
extract_img_last(resp, model) ==
    LET cs == OrDefault(resp.candidates, <<>>)
        Rev(q) == [i \in 1..Len(q) |-> q[Len(q) + 1 - i]]
        r == ScanCands([j \in 1..Len(cs) |->
                          [parts |-> Some(Rev(OrDefault(Rev(cs)[j].parts, <<>>)))]], 1)
    IN IF r.found THEN r.res ELSE Raise(NoImageMsg(resp, model))

extract_img(resp, model) ==
    LET r == ScanCands(OrDefault(resp.candidates, <<>>), 1) IN
    IF r.found THEN r.res ELSE Raise(NoImageMsg(resp, model))

\* ---------------------------------------------------------- model discovery
\* m.name.split("/")[-1]: a model name is the sequence of its "/"-separated
\* segments.
LastSegment(name) == name[Len(name)]

\* next((m for m in prefs if m in names), prefs[0])
FirstIn(prefs, names) ==
    IF \E i \in 1..Len(prefs) : prefs[i] \in names
    THEN prefs[CHOOSE i \in 1..Len(prefs) :
                 prefs[i] \in names /\ \A j \in 1..(i - 1) : prefs[j] \notin names]
    ELSE prefs[1]

\* The fallback of detect_models' except clause.
DefaultModels == <<IMAGE_MODELS[1], TEXT_MODELS[1]>>

\* Mutant: the fallback indexes the second entry of each list.
detect_models_second(listing) ==
    IF listing.ok
    THEN LET names == {LastSegment(listing.val[i].val) :
                         i \in {k \in 1..Len(listing.val) :
                                  ~listing.val[k].none /\ listing.val[k].val # <<>>}}
         IN <<FirstIn(IMAGE_MODELS, names), FirstIn(TEXT_MODELS, names)>>
    ELSE <<IMAGE_MODELS[2], TEXT_MODELS[2]>>

\* detect_models, given what client.models.list() returned or raised: the
\* listing is a sequence of model names, each possibly None or empty.
detect_models(listing) ==
    IF listing.ok
    THEN LET names == {LastSegment(listing.val[i].val) :
                         i \in {k \in 1..Len(listing.val) :
                                  ~listing.val[k].none /\ listing.val[k].val # <<>>}}
         IN <<FirstIn(IMAGE_MODELS, names), FirstIn(TEXT_MODELS, names)>>
    ELSE DefaultModels

\* ----------------------------------------------------------- prompt builders
\* x or default
OrStr(x, d) == IF x = "" THEN d ELSE x

\* layer_prompt: the prompt is the sequence of the pieces of its f-strings; a
\* label piece ("Object: ") is followed by the piece that fills its slot.
layer_prompt(kind, main, obj, bg, lt, mood) ==
    LET base == <<"Scene: ", main, "\n", "Mood: ", OrStr(mood, "neutral"), "\n">> IN
    IF kind = "object" THEN
        base \o <<"Generate ONLY the isolated main subject/object.", "\n",
                  "Object: ", OrStr(obj, "infer from scene"), "\n",
                  "Lighting: ", OrStr(lt, "neutral studio"), "\n",
                  CHESS_BG, "\n", STYLE_GUARD>>
    ELSE IF kind = "light" THEN
        base \o <<"Generate ONLY a lighting/glow/atmosphere effects layer.", "\n",
                  "Lighting: ", OrStr(lt, "cinematic volumetric light, soft bloom"), "\n",
                  "Minimal geometry - light effects only.", "\n",
                  CHESS_BG, "\n", STYLE_GUARD>>
    ELSE IF kind = "background" THEN
        base \o <<"Generate ONLY the background environment. No main subject in it.", "\n",
                  "Background: ", OrStr(bg, "infer fitting background from scene"), "\n",
                  "Lighting: ", OrStr(lt, "match the mood"), "\n", STYLE_GUARD>>
    ELSE IF kind = "combo" THEN
        <<"Render the full scene as one unified image:", "\n",
          "Scene: ", main, "\n", "Main object: ", OrStr(obj, "infer"), "\n",
          "Background: ", OrStr(bg, "infer"), "\n",
          "Lighting: ", OrStr(lt, "infer"), "\n", "Mood: ", mood, "\n", STYLE_GUARD>>
    ELSE <<main>>

\* ------------------------------------------------------------- decomposition
\* A text of the text model is a sequence of tokens: a code fence (three
\* backticks, written "<fence>"), a run of
\* lowercase letters, whitespace, prose, or the text of one JSON document.
Fence == "<fence>"
IsLowerWord(t) == t \in {"json", "null"}
IsSpace(t) == t \in {" ", "\n"}

JStr(s) == [type |-> "str", s |-> s]
JNull == [type |-> "NoneType", s |-> "None"]
JInt(digits) == [type |-> "int", s |-> digits]
JDict(items) == [type |-> "dict", items |-> items]
JOther(type) == [type |-> type, items |-> <<>>]

\* json.loads on the text of one document: what each document parses to.
JsonDocs ==
    [t \in {"{object,background,light,mood}", "{object,background}",
            "{light:null,mood:7}", "{}", "[1,2]", "\"cat\"", "42", "null"} |->
        CASE t = "{object,background,light,mood}" ->
                JDict([k \in {"object", "background", "light", "mood"} |->
                        JStr(CASE k = "object" -> "red fox"
                               [] k = "background" -> "snowy field"
                               [] k = "light" -> "golden hour"
                               [] k = "mood" -> "serene")])
          [] t = "{object,background}" ->
                JDict([k \in {"object", "background"} |->
                        JStr(IF k = "object" THEN "red fox" ELSE "snowy field")])
          [] t = "{light:null,mood:7}" ->
                JDict([k \in {"light", "mood"} |->
                        IF k = "light" THEN JNull ELSE JInt("7")])
          [] t = "{}" -> JDict(<<>>)
          [] t = "[1,2]" -> JOther("list")
          [] t = "\"cat\"" -> JOther("str")
          [] t = "42" -> JOther("int")
          [] t = "null" -> JOther("NoneType")]

\* json.loads(txt): txt must be exactly one document.
json_loads(txt) ==
    IF Len(txt) = 1 /\ txt[1] \in DOMAIN JsonDocs
    THEN Ok(JsonDocs[txt[1]])
    ELSE Raise(<<"JSONDecodeError">>)

RECURSIVE StripFences(_)
\* re.sub(r"<fence>[a-z]*", "", txt).replace("<fence>", ""): every fence goes, with
\* the run of lowercase letters right after it.
StripFences(txt) ==
    IF Len(txt) = 0 THEN <<>>
    ELSE IF txt[1] = Fence
        THEN IF Len(txt) > 1 /\ IsLowerWord(txt[2])
             THEN StripFences(Drop(txt, 2))
             ELSE StripFences(Drop(txt, 1))
    ELSE <<txt[1]>> \o StripFences(Drop(txt, 1))

RECURSIVE LStrip(_)
LStrip(txt) ==
    IF Len(txt) > 0 /\ IsSpace(txt[1]) THEN LStrip(Drop(txt, 1)) ELSE txt

RECURSIVE RStrip(_)
RStrip(txt) ==
    IF Len(txt) > 0 /\ IsSpace(txt[Len(txt)])
    THEN RStrip(Take(txt, Len(txt) - 1)) ELSE txt

\* str.strip()
Strip(txt) == RStrip(LStrip(txt))

DecKeys == {"object", "background", "light", "mood"}
EmptyDec == [k \in DecKeys |-> ""]

\* {k: str(j.get(k, "")) for k in [...]}: raises AttributeError when j is no
\* dict.
DictOfKeys(j) ==
    IF j.type = "dict"
    THEN Ok([k \in DecKeys |-> IF k \in DOMAIN j.items THEN j.items[k].s ELSE ""])
    ELSE Raise(<<"AttributeError: object has no attribute 'get'">>)

\* Mutant: the except clause catches the JSON error only.
ParseDec_json_only(txt) ==
    LET j == json_loads(txt) IN IF j.ok THEN DictOfKeys(j.val) ELSE Ok(EmptyDec)

\* The try/except of decompose_sync on the cleaned text: whatever the try
\* block raises, the except clause returns the four empty strings.
ParseDec(txt) ==
    LET j == json_loads(txt)
        d == IF j.ok THEN DictOfKeys(j.val) ELSE j
    IN IF d.ok THEN d ELSE Ok(EmptyDec)

\* The text decompose_sync hands to json.loads.
CleanText(resp) == Strip(StripFences(OrDefault(resp.text, <<>>)))

\* decompose_sync, given what generate_content returned or raised: the call's
\* exception propagates, the returned text is parsed.
decompose_sync(outcome) ==
    IF outcome.ok THEN ParseDec(CleanText(outcome.val)) ELSE outcome

\* ------------------------------------------------------------------ inputs
\* Image payloads: two PNG files, a JPEG file and bytes that are no image.
PngA == <<137, 10, 20>>
PngC == <<137, 5>>
JpegB == <<255, 30>>
NotAnImage == <<0, 7>>

TextPart == [data |-> NoData]
\* The parts a response is built from: a text part, image bytes, bytes that
\* are no image, a base64 str of an image, a base64 str cut short.
PartChoices ==
    {TextPart, [data |-> BytesData(PngA)], [data |-> BytesData(NotAnImage)],
     [data |-> StrData(b64encode(JpegB))],
     [data |-> StrData(Take(b64encode(PngC), 3))]}

\* A candidate with the given parts; one without parts has no content at all.
Candidate(parts) ==
    [parts |-> IF Len(parts) = 0 THEN Absent(<<>>) ELSE Some(parts)]

\* flat cut into Len(cuts) + 1 candidates at the positions cuts.
SplitAt(flat, cuts) ==
    [i \in 1..(Len(cuts) + 1) |->
        Candidate(SubSeq(flat,
                         (IF i = 1 THEN 0 ELSE cuts[i - 1]) + 1,
                         IF i = Len(cuts) + 1 THEN Len(flat) ELSE cuts[i]))]

CutsOf(n, c) ==
    {cuts \in [1..(c - 1) -> 0..n] :
        \A i \in 1..(c - 2) : cuts[i] <= cuts[i + 1]}

\* Every candidate list of at most MaxCands candidates and MaxParts parts.
CandLists ==
    {<<>>} \cup
    UNION {UNION {{SplitAt(flat, cuts) : cuts \in CutsOf(Len(flat), c)} :
                    c \in 1..MaxCands} :
             flat \in UNION {[1..n -> PartChoices] : n \in 0..MaxParts}}

\* A text of n characters whose last two characters differ from the rest.
LongText(n) ==
    [i \in 1..n |-> IF i = n THEN "z" ELSE IF i = n - 1 THEN "y" ELSE "a"]

ShortTexts == {Absent(<<>>), Some(<<"n", "o">>)}
LongTexts == {Some(LongText(TxtLimit)), Some(LongText(TxtLimit + 1))}

ResponsesWith(texts) ==
    {[candidates |-> c, text |-> t] :
        c \in {Some(l) : l \in CandLists} \cup {Absent(<<>>)}, t \in texts}

HasImagePart(resp) ==
    \E j \in 1..Len(OrDefault(resp.candidates, <<>>)) :
        LET parts == OrDefault(resp.candidates.val[j].parts, <<>>) IN
        \E i \in 1..Len(parts) : parts[i].data.type \in {"bytes", "str"}

OneCandidate(parts, text) ==
    [candidates |-> Some(<<Candidate(parts)>>), text |-> text]

\* What the handlers' image calls may return: every shape of response without
\* an image part, some of them with no text or a long one, and responses whose
\* first image part decodes or fails to.
SampleResponses ==
    {r \in ResponsesWith({Some(<<"n", "o">>)}) : ~HasImagePart(r)} \cup
    {OneCandidate(<<TextPart>>, t) : t \in LongTexts \cup {Absent(<<>>)}} \cup
    {[candidates |-> Absent(<<>>), text |-> t] : t \in LongTexts \cup {Absent(<<>>)}} \cup
    {OneCandidate(<<TextPart, [data |-> BytesData(PngA)]>>, Some(<<"n", "o">>)),
     OneCandidate(<<[data |-> StrData(b64encode(JpegB))],
                    [data |-> BytesData(PngA)]>>, Absent(<<>>)),
     OneCandidate(<<[data |-> BytesData(NotAnImage)],
                    [data |-> BytesData(PngA)]>>, Some(<<"n", "o">>)),
     OneCandidate(<<[data |-> StrData(Take(b64encode(PngC), 3))]>>, Absent(<<>>))}

\* str(e) of the errors the remote client raises.
ApiErrors == {<<"400 API key not valid">>, <<"503 UNAVAILABLE">>}
ApiRaises == {Raise(e) : e \in ApiErrors}

ImageOutcomes == ApiRaises \cup {Ok(r) : r \in SampleResponses}

FullJson == "{object,background,light,mood}"
ModelTexts ==
    {Absent(<<>>), Some(<<>>), Some(<<"Sure, here is the breakdown">>),
     Some(<<FullJson>>), Some(<<" ", FullJson, "\n">>),
     Some(<<Fence, "json", "\n", "{object,background}", "\n", Fence>>),
     Some(<<FullJson, "\n", "Hope this helps">>),
     Some(<<"{light:null,mood:7}">>), Some(<<"{}">>), Some(<<"[1,2]">>),
     Some(<<"\"cat\"">>), Some(<<"42">>), Some(<<"null">>)}

TextOutcomes == ApiRaises \cup {Ok([text |-> t]) : t \in ModelTexts}

ListOutcomes ==
    ApiRaises \cup
    {Ok(l) : l \in
        {<<>>,
         <<Some(<<"models", "gemini-2.0-flash-exp">>),
           Some(<<"models", "gemini-1.5-flash">>)>>,
         <<Some(<<"models", "gemini-2.0-flash-lite">>), Absent(<<>>), Some(<<>>),
           Some(<<"gemini-2.5-flash-image">>)>>,
         <<Some(<<"models", "imagen-3">>)>>}}

\* genai.Client(api_key=...) returns a client or raises.
ClientOutcomes == {Ok(<<>>), Raise(<<"Missing key inputs argument">>)}

ConnectReqs == {[endpoint |-> "connect", apiKey |-> k] : k \in {"", "key"}}

GenLayerReqs ==
    {[endpoint |-> "gen_layer", imageModel |-> "img-model", textModel |-> "txt-model",
      layerType |-> k, mainPrompt |-> m, objectPrompt |-> o, backgroundPrompt |-> b,
      lightPrompt |-> l, moodPrompt |-> d, customPrompt |-> c] :
        k \in {"object", "background", "light", "combo", "custom", "sketch"},
        m \in {"a fox in the snow"}, o \in {"", "arctic fox"},
        b \in {"", "pine forest"}, l \in {"", "moonlight"}, d \in {"", "eerie"},
        c \in {"draw a circle"}}

GenAllReqs ==
    {[endpoint |-> "gen_all", imageModel |-> "img-model", textModel |-> "txt-model",
      mainPrompt |-> m, objectPrompt |-> o, backgroundPrompt |-> b,
      lightPrompt |-> l, moodPrompt |-> d] :
        m \in {"a fox in the snow"}, o \in {"", "arctic fox"},
        b \in {"", "pine forest"}, l \in {"", "moonlight"}, d \in {"", "eerie"}}

\* Request images: a data URI, bare base64, and a string that does not decode.
RequestImages ==
    {bytes_to_b64(PngA), b64encode(JpegB), Take(b64encode(PngC), 3)}

EditReqs ==
    {[endpoint |-> "edit", imageModel |-> "img-model", image |-> i,
      instruction |-> "make it night"] : i \in RequestImages}

MergeReqs ==
    {[endpoint |-> "merge", imageModel |-> "img-model", fgImage |-> f, bgImage |-> b,
      fgName |-> "cat", bgName |-> "sunset beach", hint |-> h] :
        f \in RequestImages, b \in RequestImages,
        h \in {<<>>, <<" ">>, <<"warm tones">>}}

ImproveReqs ==
    {[endpoint |-> "improve", textModel |-> "txt-model", text |-> "a fox",
      target |-> t] : t \in {"object", "edit"}}

DecomposeReqs ==
    {[endpoint |-> "decompose", textModel |-> "txt-model", mainPrompt |-> m] :
        m \in {"", "a fox in the snow"}}

\* ---------------------------------------------------------------- handlers
NoReq == [endpoint |-> "none"]
NoOutcome == Raise(<<>>)
NoResponse == [status |-> 0, body |-> <<>>, detail |-> <<>>]

\* A handler's return value, sent with status 200.
Success(body) == [status |-> 200, body |-> body, detail |-> <<>>]
HTTPException(status, detail) == [status |-> status, body |-> <<>>, detail |-> detail]

\* The except clause of each handler.
connect_except(e) == HTTPException(400, e)
gen_layer_except(e) == HTTPException(500, e)
\* Mutant: the except clause reports what was generated so far.
gen_all_except_partial(e) == Success([layers |-> results, decomposed |-> dec])
gen_all_except(e) == HTTPException(500, e)
\* Mutant: the except clause of connect copied to edit.
edit_except_400(e) == HTTPException(400, e)
edit_except(e) == HTTPException(500, e)
merge_except(e) == HTTPException(500, e)
improve_except(e) == HTTPException(500, e)
decompose_except(e) == HTTPException(500, e)

\* The except clause of the handler of an endpoint.
ExceptOf(endpoint, e) ==
    CASE endpoint = "connect" -> connect_except(e)
      [] endpoint = "gen_layer" -> gen_layer_except(e)
      [] endpoint = "gen_all" -> gen_all_except(e)
      [] endpoint = "edit" -> edit_except(e)
      [] endpoint = "merge" -> merge_except(e)
      [] endpoint = "improve" -> improve_except(e)
      [] endpoint = "decompose" -> decompose_except(e)

\* The config argument of generate_content: CFG_IMG asks for an image.
CFG_IMG == "response_modalities=[Text, Image]"

\* A remote call as the log keeps it; raised tells whether it raised.
ListCall(outcome) ==
    [api |-> "models.list", model |-> "", contents |-> <<>>, config |-> "",
     raised |-> ~outcome.ok]
GenerateContent(model, contents, config, outcome) ==
    [api |-> "generate_content", model |-> model, contents |-> contents,
     config |-> config, raised |-> ~outcome.ok]

\* The request ends with the handler's return value.
Return(body) ==
    /\ response' = Success(body)
    /\ pc' = "done"
    /\ UNCHANGED exc

\* The request ends in the handler's except clause, which caught e and raises
\* http.
Caught(e, http) ==
    /\ exc' = e
    /\ response' = http
    /\ pc' = "done"

\* A request arrives and the handler creates its client.
Start(r, c, http, next) ==
    /\ pc = "idle"
    /\ req' = r
    /\ IF c.ok THEN pc' = next /\ UNCHANGED <<exc, response>>
       ELSE Caught(c.err, http)

\* --- connect
connect_start ==
    /\ \E r \in ConnectReqs, c \in ClientOutcomes :
          Start(r, c, connect_except(c.err), "connect_detect")
    /\ UNCHANGED <<calls, last, extracted, dec, results, loop_i, models>>

connect_detect ==
    /\ pc = "connect_detect"
    /\ \E l \in ListOutcomes :
          /\ calls' = Append(calls, ListCall(l))
          /\ last' = l
          /\ models' = detect_models(l)
    /\ pc' = "connect_sanity"
    /\ UNCHANGED <<req, extracted, dec, results, loop_i, exc, response>>

connect_sanity ==
    /\ pc = "connect_sanity"
    /\ \E o \in TextOutcomes :
          /\ calls' = Append(calls, GenerateContent(models[2],
                                                    <<"Reply with just the word OK.">>,
                                                    "max_output_tokens=5", o))
          /\ last' = o
          /\ IF o.ok
             THEN Return([imageModel |-> models[1], textModel |-> models[2]])
             ELSE Caught(o.err, connect_except(o.err))
    /\ UNCHANGED <<req, extracted, dec, results, loop_i, models>>

\* --- the image call shared by gen_layer, edit and merge: the call, then
\* return {"image": bytes_to_b64(extract_img(resp, req.imageModel))}
ImageCall(contents, endpoint) ==
    \E o \in ImageOutcomes :
        /\ calls' = Append(calls, GenerateContent(req.imageModel, contents, CFG_IMG, o))
        /\ last' = o
        /\ IF o.ok
           THEN LET x == extract_img(o.val, req.imageModel) IN
                /\ extracted' = x
                /\ IF x.ok THEN Return([image |-> bytes_to_b64(x.val)])
                   ELSE Caught(x.err, ExceptOf(endpoint, x.err))
           ELSE /\ Caught(o.err, ExceptOf(endpoint, o.err))
                /\ UNCHANGED extracted

\* --- gen_layer
GenLayerPrompt(r) ==
    IF r.layerType = "custom" THEN <<r.customPrompt>>
    ELSE layer_prompt(r.layerType, r.mainPrompt, r.objectPrompt,
                      r.backgroundPrompt, r.lightPrompt, r.moodPrompt)

gen_layer_start ==
    /\ \E r \in GenLayerReqs, c \in ClientOutcomes :
          Start(r, c, gen_layer_except(c.err), "gen_layer_call")
    /\ UNCHANGED <<calls, last, extracted, dec, results, loop_i, models>>

gen_layer_call ==
    /\ pc = "gen_layer_call"
    /\ ImageCall(GenLayerPrompt(req), "gen_layer")
    /\ UNCHANGED <<req, dec, results, loop_i, models>>

\* --- gen_all
\* Mutant: "or" for "and".
NeedsDecompose_either(r) == r.objectPrompt = "" \/ r.backgroundPrompt = ""

\* not req.objectPrompt and not req.backgroundPrompt
NeedsDecompose(r) == r.objectPrompt = "" /\ r.backgroundPrompt = ""

\* The dict built from the request in the else branch.
RequestDec(r) ==
    [k \in DecKeys |->
        CASE k = "object" -> r.objectPrompt
          [] k = "background" -> r.backgroundPrompt
          [] k = "light" -> r.lightPrompt
          [] k = "mood" -> r.moodPrompt]

\* Mutant: background and light change places.
LayerKinds_swapped == <<"object", "light", "background", "combo">>
LayerKinds == <<"object", "background", "light", "combo">>

\* Mutant: a lightPrompt of the request overrides the decomposed light.
GenAllPrompt_request_light(kind, r, d) ==
    layer_prompt(kind, r.mainPrompt, d["object"], d["background"],
                 OrStr(r.lightPrompt, d["light"]), d["mood"])

\* The prompt of one iteration of the loop.
GenAllPrompt(kind, r, d) ==
    layer_prompt(kind, r.mainPrompt, d["object"], d["background"], d["light"], d["mood"])

DecomposeContents(prompt) ==
    <<"Decompose this scene prompt into JSON with keys: object, background, light, mood. ",
      "Short concrete values. No markdown, no code fences.", "\n", "\n", "PROMPT: ",
      prompt>>

\* The dict results as the handler returns it.
AsDict(items) ==
    [k \in {items[i][1] : i \in 1..Len(items)} |->
        items[CHOOSE i \in 1..Len(items) :
                 items[i][1] = k /\ \A j \in (i + 1)..Len(items) : items[j][1] # k][2]]

gen_all_start ==
    /\ \E r \in GenAllReqs, c \in ClientOutcomes :
          /\ Start(r, c, gen_all_except(c.err),
                   IF NeedsDecompose(r) THEN "gen_all_decompose" ELSE "gen_all_layer")
          /\ IF c.ok /\ ~NeedsDecompose(r)
             THEN dec' = RequestDec(r) /\ results' = <<>> /\ loop_i' = 1
             ELSE UNCHANGED <<dec, results, loop_i>>
    /\ UNCHANGED <<calls, last, extracted, models>>

gen_all_decompose ==
    /\ pc = "gen_all_decompose"
    /\ \E o \in TextOutcomes :
          LET d == decompose_sync(o) IN
          /\ calls' = Append(calls, GenerateContent(req.textModel,
                                                    DecomposeContents(req.mainPrompt),
                                                    "temperature=0.2", o))
          /\ last' = o
          /\ IF d.ok
             THEN /\ dec' = d.val
                  /\ results' = <<>>
                  /\ loop_i' = 1
                  /\ pc' = "gen_all_layer"
                  /\ UNCHANGED <<exc, response>>
             ELSE /\ Caught(d.err, gen_all_except(d.err))
                  /\ UNCHANGED <<dec, results, loop_i>>
    /\ UNCHANGED <<req, extracted, models>>

\* One iteration of the loop: the layer's prompt, its call, its image; the
\* last iteration returns.
gen_all_layer ==
    /\ pc = "gen_all_layer"
    /\ \E o \in ImageOutcomes :
          LET kind == LayerKinds[loop_i]
              x == extract_img(o.val, req.imageModel)
              stored == Append(results, <<kind, bytes_to_b64(x.val)>>)
          IN
          /\ calls' = Append(calls, GenerateContent(req.imageModel,
                                                    GenAllPrompt(kind, req, dec),
                                                    CFG_IMG, o))
          /\ last' = o
          /\ IF ~o.ok
             THEN /\ Caught(o.err, gen_all_except(o.err))
                  /\ UNCHANGED <<extracted, results, loop_i>>
             ELSE /\ extracted' = x
                  /\ IF ~x.ok
                     THEN /\ Caught(x.err, gen_all_except(x.err))
                          /\ UNCHANGED <<results, loop_i>>
                     ELSE /\ results' = stored
                          /\ IF loop_i < Len(LayerKinds)
                             THEN /\ loop_i' = loop_i + 1
                                  /\ UNCHANGED <<pc, exc, response>>
                             ELSE /\ Return([layers |-> AsDict(stored),
                                             decomposed |-> dec])
                                  /\ UNCHANGED loop_i
    /\ UNCHANGED <<req, dec, models>>

\* --- edit
\* Part.from_bytes(data=..., mime_type="image/png") and Part.from_text(text=...)
BytesPart(b) == [kind |-> "bytes", data |-> b, text |-> <<>>]
TextPartOf(t) == [kind |-> "text", data |-> <<>>, text |-> t]

EditContents(r) ==
    <<BytesPart(b64_to_bytes(r.image).val),
      TextPartOf(<<r.instruction, "\n", NO_CHANGE>>)>>

\* The client is created, then the arguments of the call are evaluated:
\* decoding the request's image may raise before any call is made.
edit_start ==
    /\ \E r \in EditReqs, c \in ClientOutcomes :
          LET b == b64_to_bytes(r.image) IN
          IF c.ok /\ ~b.ok
          THEN /\ pc = "idle"
               /\ req' = r
               /\ Caught(b.err, edit_except(b.err))
          ELSE Start(r, c, edit_except(c.err), "edit_call")
    /\ UNCHANGED <<calls, last, extracted, dec, results, loop_i, models>>

edit_call ==
    /\ pc = "edit_call"
    /\ ImageCall(EditContents(req), "edit")
    /\ UNCHANGED <<req, dec, results, loop_i, models>>

\* --- merge
MergeInstr(r) ==
    <<"Composite these two layers into one cohesive image:", "\n",
      "  - Image 1 = FOREGROUND (top layer): ", r.fgName, "\n",
      "  - Image 2 = BACKGROUND (bottom layer): ", r.bgName, "\n", "\n",
      "Place foreground elements naturally in front of the background. ",
      "Match lighting, blend edges seamlessly. One unified final image. ",
      "No new objects added. No watermarks.">>
    \o (IF Strip(r.hint) # <<>>
        THEN <<"\n", "Extra blending note: ">> \o r.hint ELSE <<>>)

MergeContents(r) ==
    <<BytesPart(b64_to_bytes(r.fgImage).val), BytesPart(b64_to_bytes(r.bgImage).val),
      TextPartOf(MergeInstr(r))>>

\* The foreground is decoded first, then the background.
MergeDecode(r) ==
    LET f == b64_to_bytes(r.fgImage) IN IF f.ok THEN b64_to_bytes(r.bgImage) ELSE f

merge_start ==
    /\ \E r \in MergeReqs, c \in ClientOutcomes :
          LET b == MergeDecode(r) IN
          IF c.ok /\ ~b.ok
          THEN /\ pc = "idle"
               /\ req' = r
               /\ Caught(b.err, merge_except(b.err))
          ELSE Start(r, c, merge_except(c.err), "merge_call")
    /\ UNCHANGED <<calls, last, extracted, dec, results, loop_i, models>>

merge_call ==
    /\ pc = "merge_call"
    /\ ImageCall(MergeContents(req), "merge")
    /\ UNCHANGED <<req, dec, results, loop_i, models>>

\* --- improve
ImproveContents(r) ==
    <<"Improve this image editing/generation prompt for target '", r.target, "'. ",
      "Keep the intent, make it more specific and visually descriptive. ",
      "Output ONLY the improved prompt text, nothing else.", "\n", "\n", "PROMPT: ",
      r.text>>

improve_start ==
    /\ \E r \in ImproveReqs, c \in ClientOutcomes :
          Start(r, c, improve_except(c.err), "improve_call")
    /\ UNCHANGED <<calls, last, extracted, dec, results, loop_i, models>>

improve_call ==
    /\ pc = "improve_call"
    /\ \E o \in TextOutcomes :
          /\ calls' = Append(calls, GenerateContent(req.textModel, ImproveContents(req),
                                              "temperature=0.35", o))
          /\ last' = o
          /\ IF o.ok
             THEN Return([text |-> Strip(OrDefault(o.val.text, <<>>))])
             ELSE Caught(o.err, improve_except(o.err))
    /\ UNCHANGED <<req, extracted, dec, results, loop_i, models>>

\* --- decompose
decompose_start ==
    /\ \E r \in DecomposeReqs, c \in ClientOutcomes :
          Start(r, c, decompose_except(c.err), "decompose_call")
    /\ UNCHANGED <<calls, last, extracted, dec, results, loop_i, models>>

decompose_call ==
    /\ pc = "decompose_call"
    /\ \E o \in TextOutcomes :
          LET d == decompose_sync(o) IN
          /\ calls' = Append(calls, GenerateContent(req.textModel,
                                                    DecomposeContents(req.mainPrompt),
                                                    "temperature=0.2", o))
          /\ last' = o
          /\ IF d.ok THEN Return(d.val)
             ELSE Caught(d.err, decompose_except(d.err))
    /\ UNCHANGED <<req, extracted, dec, results, loop_i, models>>

\* ----------------------------------------------------------- specification
\* No request is being handled; nothing is kept from one request to the next.
Idle ==
    /\ pc = "idle"
    /\ req = NoReq
    /\ calls = <<>>
    /\ last = NoOutcome
    /\ extracted = NoOutcome
    /\ dec = EmptyDec
    /\ results = <<>>
    /\ loop_i = 0
    /\ models = DefaultModels
    /\ exc = <<>>
    /\ response = NoResponse

Init == Idle

\* The response is sent; the next request starts from scratch.
next_request ==
    /\ pc = "done"
    /\ pc' = "idle"
    /\ req' = NoReq
    /\ calls' = <<>>
    /\ last' = NoOutcome
    /\ extracted' = NoOutcome
    /\ dec' = EmptyDec
    /\ results' = <<>>
    /\ loop_i' = 0
    /\ models' = DefaultModels
    /\ exc' = <<>>
    /\ response' = NoResponse

Next ==
    \/ connect_start \/ connect_detect \/ connect_sanity
    \/ gen_layer_start \/ gen_layer_call
    \/ gen_all_start \/ gen_all_decompose \/ gen_all_layer
    \/ edit_start \/ edit_call
    \/ merge_start \/ merge_call
    \/ improve_start \/ improve_call
    \/ decompose_start \/ decompose_call
    \/ next_request

Spec == Init /\ [][Next]_vars

\* Response decoding alone: extract_img applied to every response of the
\* bounded shapes.
InitExtract ==
    /\ pc = "extract"
    /\ req = [endpoint |-> "extract", imageModel |-> IMAGE_MODELS[1]]
    /\ last \in {Ok(r) : r \in ResponsesWith(ShortTexts)}
    /\ calls = <<>>
    /\ extracted = NoOutcome
    /\ dec = EmptyDec
    /\ results = <<>>
    /\ loop_i = 0
    /\ models = DefaultModels
    /\ exc = <<>>
    /\ response = NoResponse

extract_step ==
    /\ pc = "extract"
    /\ extracted' = extract_img(last.val, req.imageModel)
    /\ pc' = "extracted"
    /\ UNCHANGED <<req, calls, last, dec, results, loop_i, models, exc, response>>

NextExtract == extract_step

SpecExtract == InitExtract /\ [][NextExtract]_vars

\* ------------------------------------------------------------------ claims
InGenAll == req.endpoint = "gen_all"
IsImageCall(c) == c.config = CFG_IMG
IsDecomposeCall(c) == c.config = "temperature=0.2"
ImageCalls == SelectSeq(calls, IsImageCall)
LayerOrder == <<"object", "background", "light", "combo">>
BothEmpty == req.objectPrompt = "" /\ req.backgroundPrompt = ""
ClientFailed == pc = "done" /\ calls = <<>> /\ \E c \in ClientOutcomes : ~c.ok /\ exc = c.err

\* The last remote call was a layer's image call and it raised, or no image
\* could be extracted from what it returned.
LayerFailed ==
    /\ calls # <<>>
    /\ IsImageCall(calls[Len(calls)])
    /\ ~last.ok \/ ~extract_img(last.val, req.imageModel).ok

\* C1: in generate-all a failure of any layer's call or extraction ends the
\* request with status 500 and no body; a success response carries all four
\* layers and follows four image calls.
C1_AllOrNothing ==
    InGenAll =>
        /\ LayerFailed =>
              pc = "done" /\ response.status = 500 /\ response.body = <<>>
        /\ response.status = 200 =>
              /\ DOMAIN response.body.layers = {"object", "background", "light", "combo"}
              /\ Len(ImageCalls) = 4
              /\ ~LayerFailed

\* The third layer fails after two images were generated.
C1_Witness ==
    InGenAll /\ LayerFailed /\ Len(results) = 2 /\ response.status = 500

\* The prompts of the image calls issued so far are the templates of the
\* first kinds of LayerOrder filled from the attribute dict d.
PromptsFrom(d) ==
    /\ Len(ImageCalls) <= Len(LayerOrder)
    /\ \A i \in 1..Len(ImageCalls) :
          ImageCalls[i].contents =
              layer_prompt(LayerOrder[i], req.mainPrompt, d["object"], d["background"],
                           d["light"], d["mood"])

RequestFields ==
    [k \in DecKeys |->
        CASE k = "object" -> req.objectPrompt
          [] k = "background" -> req.backgroundPrompt
          [] k = "light" -> req.lightPrompt
          [] k = "mood" -> req.moodPrompt]

\* The decomposition call, if any, is the first call of the request, and with
\* a sub-prompt supplied the layer prompts are filled from the request.
C2_OrderAndValues ==
    /\ \A i \in 1..Len(calls) : IsDecomposeCall(calls[i]) => i = 1
    /\ ~BothEmpty =>
          /\ \A i \in 1..Len(calls) : ~IsDecomposeCall(calls[i])
          /\ PromptsFrom(RequestFields)

\* C2 as stated: a generate-all request makes the decomposition call if and
\* only if objectPrompt and backgroundPrompt are both empty, before any layer
\* call; otherwise the layer prompts use the request's fields.
C2_Original ==
    (InGenAll /\ pc = "done") =>
        /\ (\E i \in 1..Len(calls) : IsDecomposeCall(calls[i])) <=> BothEmpty
        /\ C2_OrderAndValues

\* C2 amended: the same, for a request whose client was created; a request
\* whose client creation fails makes no remote call at all.  A request ends
\* without any call only when client creation failed, and the first call of a
\* request is the decomposition call if and only if both sub-prompts are empty.
C2_Amended ==
    InGenAll =>
        /\ (pc = "done" /\ calls = <<>>) => ClientFailed
        /\ pc = "gen_all_layer" /\ calls = <<>> => ~BothEmpty
        /\ calls # <<>> => (IsDecomposeCall(calls[1]) <=> BothEmpty)
        /\ C2_OrderAndValues

\* Decomposition ran and a layer call followed it.
C2_Witness ==
    /\ InGenAll /\ BothEmpty /\ Len(calls) >= 2
    /\ IsDecomposeCall(calls[1]) /\ IsImageCall(calls[2])

\* C3: the image calls of a generate-all request are those of a prefix of
\* [object, background, light, combo], in that order, each kind once; a call
\* is issued only when every earlier layer's image is stored, and a handler
\* that is still running has stored the image of every call it issued.
C3_SequentialPrefix ==
    InGenAll /\ pc \in {"gen_all_layer", "done"} /\ ~ClientFailed =>
        /\ Len(ImageCalls) <= 4
        /\ \A i \in 1..Len(ImageCalls) :
              ImageCalls[i].contents =
                  layer_prompt(LayerOrder[i], req.mainPrompt, dec["object"],
                               dec["background"], dec["light"], dec["mood"])
        /\ \A i \in 1..Len(results) : results[i][1] = LayerOrder[i]
        /\ Len(ImageCalls) \in {Len(results), Len(results) + 1}
        /\ Len(ImageCalls) = Len(results) + 1 => pc = "done" /\ LayerFailed
        /\ pc = "gen_all_layer" => Len(ImageCalls) = Len(results)

\* The light layer's call failed: three calls were issued, two images stored.
C3_Witness ==
    /\ InGenAll /\ pc = "done" /\ Len(ImageCalls) = 3 /\ Len(results) = 2
    /\ response.status = 500

\* C4: a request that fails ends with status 400 when it is a connect request
\* and with status 500 otherwise, with str(e) of the exception as the detail;
\* a remote call that raises (a rejected key included) fails the request,
\* except the model listing of connect.
C4_ErrorClasses ==
    pc = "done" =>
        /\ response.status \in {200, 400, 500}
        /\ response.status = 400 => req.endpoint = "connect"
        /\ (response.status = 500) =>
              req.endpoint \in {"gen_layer", "gen_all", "edit", "merge", "improve",
                                "decompose"}
        /\ response.status # 200 => exc # <<>> /\ response.detail = exc
        /\ response.status = 200 => exc = <<>>
        /\ (calls # <<>> /\ ~last.ok) =>
              /\ response.status = (IF req.endpoint = "connect" THEN 400 ELSE 500)
              /\ response.detail = last.err
        /\ ClientFailed =>
              response.status = (IF req.endpoint = "connect" THEN 400 ELSE 500)

\* The remote service rejects the key of an edit request.
C4_Witness ==
    /\ pc = "done" /\ req.endpoint = "edit"
    /\ calls # <<>> /\ ~last.ok /\ last.err = <<"400 API key not valid">>
    /\ response.status = 500

\* The text json.loads is given is no JSON document, or one that is no object.
Unparseable(resp) ==
    LET j == json_loads(CleanText(resp)) IN ~j.ok \/ j.val.type # "dict"

AllEmpty(d) == DOMAIN d = {"object", "background", "light", "mood"} /\ \A k \in DOMAIN d : d[k] = ""

\* C5: when the text call of decompose returns, the request succeeds with the
\* four keys, all empty for a text that is no JSON object; inside generate-all
\* the handler then goes on to the layers.  Only a raising call is an error.
C5_ParseFailureIsEmpty ==
    /\ (req.endpoint = "decompose" /\ calls # <<>>) =>
          /\ pc = "done"
          /\ IF last.ok
             THEN /\ response.status = 200
                  /\ DOMAIN response.body = {"object", "background", "light", "mood"}
                  /\ Unparseable(last.val) => AllEmpty(response.body)
             ELSE response.status = 500 /\ response.detail = last.err
    /\ (InGenAll /\ Len(calls) = 1 /\ IsDecomposeCall(calls[1])) =>
          IF last.ok
          THEN /\ pc = "gen_all_layer" /\ response = NoResponse
               /\ DOMAIN dec = {"object", "background", "light", "mood"}
               /\ Unparseable(last.val) => AllEmpty(dec)
          ELSE pc = "done" /\ response.status = 500 /\ response.detail = last.err

\* The model answered with a JSON array.
C5_Witness ==
    /\ req.endpoint = "decompose" /\ calls # <<>> /\ last.ok
    /\ last.val.text = Some(<<"[1,2]">>)
    /\ response.status = 200 /\ AllEmpty(response.body)

\* C6: an image call that returns a response without any inline image part
\* ends the request with status 500 and the message "No image in response from
\* [model]. Got: " followed by the first 300 characters of the response's text.
C6_NoImageIsError ==
    (calls # <<>> /\ IsImageCall(calls[Len(calls)]) /\ last.ok /\ ~HasImagePart(last.val)) =>
        LET text == IF last.val.text.none THEN <<>> ELSE last.val.text.val
            n == IF Len(text) < 300 THEN Len(text) ELSE 300
            head == <<"No image in response from [", req.imageModel, "]. Got: ">>
        IN /\ req.endpoint \in {"gen_layer", "gen_all", "edit", "merge"}
           /\ pc = "done" /\ response.status = 500 /\ response.body = <<>>
           /\ Len(response.detail) = 3 + n
           /\ \A i \in 1..3 : response.detail[i] = head[i]
           /\ \A i \in 1..n : response.detail[3 + i] = text[i]

\* A merge whose response has only a text part and a text of 301 characters.
C6_Witness ==
    /\ req.endpoint = "merge" /\ calls # <<>> /\ last.ok /\ ~HasImagePart(last.val)
    /\ Len(OrDefault(last.val.text, <<>>)) = 301
    /\ response.status = 500 /\ Len(response.detail) = 303

\* The places <<candidate, part>> of a response's inline image parts.
ImagePlaces(resp) ==
    LET cands == OrDefault(resp.candidates, <<>>) IN
    {p \in UNION {{<<j, i>> : i \in 1..Len(OrDefault(cands[j].parts, <<>>))} :
                    j \in 1..Len(cands)} :
        cands[p[1]].parts.val[p[2]].data.type \in {"bytes", "str"}}

\* C7: extract_img yields what decoding the first inline image part yields,
\* first by candidate and then by part; nothing else of the response counts.
C7_FirstImagePart ==
    (pc = "extracted" /\ ImagePlaces(last.val) # {}) =>
        LET P == ImagePlaces(last.val)
            first == CHOOSE p \in P :
                        \A q \in P : p[1] < q[1] \/ (p[1] = q[1] /\ p[2] <= q[2])
            part == last.val.candidates.val[first[1]].parts.val[first[2]]
        IN extracted = DecodePart(part.data)

\* A text-only candidate, then a candidate with two different images.
C7_Witness ==
    /\ pc = "extracted"
    /\ last.val.candidates =
          Some(<<Candidate(<<TextPart>>),
                 Candidate(<<[data |-> StrData(b64encode(JpegB))],
                             [data |-> BytesData(PngA)]>>)>>)
    /\ extracted = Ok(<<137, 30>>)

Members(q) == {q[i] : i \in 1..Len(q)}

\* C8: in connect the model listing never ends the request; when it raised,
\* the pair is the first image model and the first text model; the sanity
\* call uses the pair's text model and its outcome alone decides between the
\* pair (status 200) and status 400; a returned pair is of the hardcoded lists.
C8_ConnectFallback ==
    req.endpoint = "connect" =>
        /\ pc = "connect_sanity" => Len(calls) = 1 /\ response = NoResponse
        /\ Len(calls) >= 1 =>
              /\ calls[1].api = "models.list"
              /\ calls[1].raised => models = <<"gemini-2.5-flash-image", "gemini-2.0-flash">>
        /\ Len(calls) = 2 =>
              /\ pc = "done"
              /\ calls[2].api = "generate_content" /\ calls[2].model = models[2]
              /\ IF last.ok
                 THEN /\ response.status = 200
                      /\ response.body = [imageModel |-> models[1], textModel |-> models[2]]
                 ELSE response.status = 400
        /\ response.status = 200 =>
              /\ response.body.imageModel \in Members(IMAGE_MODELS)
              /\ response.body.textModel \in Members(TEXT_MODELS)
        /\ (pc = "done" /\ response.status # 200) =>
              ClientFailed \/ (Len(calls) = 2 /\ ~last.ok)

\* The listing raised and the sanity call succeeded.
C8_Witness ==
    /\ req.endpoint = "connect" /\ pc = "done" /\ Len(calls) = 2 /\ calls[1].raised
    /\ response.status = 200
    /\ response.body = [imageModel |-> "gemini-2.5-flash-image",
                        textModel |-> "gemini-2.0-flash"]

FieldLabels == {"Mood: ", "Object: ", "Main object: ", "Background: ", "Lighting: "}

\* The request field a label's slot is filled from.
FieldOf(label, r) ==
    CASE label = "Mood: " -> r.moodPrompt
      [] label \in {"Object: ", "Main object: "} -> r.objectPrompt
      [] label = "Background: " -> r.backgroundPrompt
      [] label = "Lighting: " -> r.lightPrompt

\* C9 as stated: in the prompt generate-layer builds for kind object, light,
\* background or combo, every slot of the object, background, light and mood
\* fields holds the field, or a default phrase when the field is empty: no
\* slot is left empty.
C9_Original ==
    (req.endpoint = "gen_layer" /\ calls # <<>>
        /\ req.layerType \in {"object", "light", "background", "combo"}) =>
        LET p == calls[1].contents IN
        \A i \in 1..(Len(p) - 1) :
            p[i] \in FieldLabels =>
                /\ p[i + 1] # ""
                /\ FieldOf(p[i], req) # "" => p[i + 1] = FieldOf(p[i], req)

\* The steps of a generate-all request, for C10: every layer prompt is filled
\* from the one dict dec, which no layer step changes and which a success returns as
\* "decomposed"; dec is what decompose_sync made of the model's text when both
\* sub-prompts are empty, and the request's four fields otherwise.
C10_Step ==
    /\ (pc = "idle" /\ req'.endpoint = "gen_all" /\ pc' = "gen_all_layer") =>
          dec' = [k \in DecKeys |->
                    CASE k = "object" -> req'.objectPrompt
                      [] k = "background" -> req'.backgroundPrompt
                      [] k = "light" -> req'.lightPrompt
                      [] k = "mood" -> req'.moodPrompt]
    /\ (InGenAll /\ pc = "gen_all_decompose" /\ pc' = "gen_all_layer") =>
          dec' = decompose_sync(last').val
    /\ (InGenAll /\ pc = "gen_all_layer") =>
          /\ dec' = dec
          /\ (calls # <<>> /\ IsDecomposeCall(calls[1])) <=> BothEmpty
          /\ Len(calls') = Len(calls) + 1
          /\ \A i \in 1..Len(calls) : calls'[i] = calls[i]
          /\ calls'[Len(calls')].contents =
                layer_prompt(LayerOrder[Len(ImageCalls) + 1], req.mainPrompt,
                             dec["object"], dec["background"], dec["light"], dec["mood"])
          /\ response'.status = 200 =>
                /\ Len(ImageCalls) = 3
                /\ response'.body.decomposed = dec

\* C10: every step of a generate-all request keeps to the one attribute set:
\* C10_Step holds of every step.
C10_OneAttributeSet == [][C10_Step]_vars

\* Decomposition ran for a request that carried a lightPrompt, and the
\* request succeeded with the decomposed light.
C10_Witness ==
    /\ InGenAll /\ pc = "done" /\ response.status = 200
    /\ BothEmpty /\ req.lightPrompt = "moonlight"
    /\ response.body.decomposed["light"] = "golden hour"

====
